---------------------------- MODULE Spec2Model ----------------------------
(* WhisperVault (src/contracts/WhisperVault.sol): the on-chain message     *)
(* store.  Every external function of the contract is one action; a call   *)
(* is atomic, and a reverted call leaves the storage as it was.            *)
EXTENDS Integers, Sequences, FiniteSets, TLC

(* ------------------------------------------------------------------ *)
(* Bounds of the model                                                 *)
(* ------------------------------------------------------------------ *)

\* the longest message list, and the most append calls kept on record
MaxAppends == 2

\* block.timestamp ranges over 1..MaxTime
MaxTime == 2

(* ------------------------------------------------------------------ *)
(* Program constants                                                   *)
(* ------------------------------------------------------------------ *)

\* require(encryptedContent.length <= 16384, ...)
MaxContentLength == 16384

\* address(this)
Vault == "vault"

\* externally owned accounts (the tests' signers)
Users == {"alice", "bob"}

\* msg.sender and the `user` argument range over every address.  The
\* contract's own address is a caller only through a self-call.
Address == Users \cup {Vault}

\* bytes values, by length and content; the lengths are the edges of the
\* two require checks.
Payloads ==
    { [size |-> 0, data |-> ""],
      [size |-> 1, data |-> "a"],
      [size |-> MaxContentLength, data |-> "b"],
      [size |-> MaxContentLength + 1, data |-> "c"] }

\* the index arguments tried by the read actions: every index a list can
\* have and one past the longest list
Indices == 0 .. MaxAppends

Times == 1 .. MaxTime

VARIABLES
    userMessages,   \* mapping(address => Message[]) _userMessages
    now,            \* block.timestamp of the latest block
    last,           \* the latest call: its arguments and its outcome
    sent            \* history (recorded under SpecHistory): per caller, the
                    \* append calls whose payload the two length checks
                    \* accept, since the caller's last clearMessages

vaultVars == <<userMessages, now, last, sent>>

(* ------------------------------------------------------------------ *)
(* struct Message                                                      *)
(* ------------------------------------------------------------------ *)

Message(sender, encryptedContent, timestamp, isResponse) ==
    [ label |-> "",
      sender |-> sender,
      encryptedContent |-> encryptedContent,
      timestamp |-> timestamp,
      isResponse |-> isResponse ]

(* ------------------------------------------------------------------ *)
(* Outcomes of a call                                                  *)
(* ------------------------------------------------------------------ *)

NoValue == <<>>

\* a failed require (reason string) or a Panic(code)
Revert(reason) ==
    [reverted |-> TRUE, reason |-> reason, value |-> NoValue]

Return(value) ==
    [reverted |-> FALSE, reason |-> "", value |-> value]

\* a state-changing call that went through: the new storage and its event
Commit(storage, event) ==
    [reverted |-> FALSE, reason |-> "", storage |-> storage, log |-> <<event>>]

\* a state-changing call that reverted: the storage is rolled back
Abort(reason) ==
    [reverted |-> TRUE, reason |-> reason, storage |-> userMessages, log |-> <<>>]

PanicUnderflow == "Panic(0x11)"

(* ------------------------------------------------------------------ *)
(* View functions                                                      *)
(* ------------------------------------------------------------------ *)

getMessageCount(user) ==
    Len(userMessages[user])

getMessageMetadata_OffByOne(user, index) ==
    IF ~(index + 1 < Len(userMessages[user]))
    THEN Revert("Vault: Index error")
    ELSE LET msg_ == userMessages[user][index + 1]
         IN  Return(<<msg_.sender, msg_.timestamp, msg_.isResponse>>)

getMessageMetadata(user, index) ==
    IF ~(index < Len(userMessages[user]))
    THEN Revert("Vault: Index error")
    ELSE LET msg_ == userMessages[user][index + 1]
         IN  Return(<<msg_.sender, msg_.timestamp, msg_.isResponse>>)

getEncryptedContent(user, index) ==
    IF ~(index < Len(userMessages[user]))
    THEN Revert("Vault: Index error")
    ELSE Return(userMessages[user][index + 1].encryptedContent)

getMessage(user, index) ==
    IF ~(index < Len(userMessages[user]))
    THEN Revert("Vault: Index error")
    ELSE LET msg_ == userMessages[user][index + 1]
         IN  Return(<<msg_.sender, msg_.encryptedContent, msg_.timestamp, msg_.isResponse>>)

getAllMessages(user) ==
    userMessages[user]

(* ------------------------------------------------------------------ *)
(* State-changing functions, as the outcome of one call                *)
(* ------------------------------------------------------------------ *)

MessageStored(user, messageIndex, timestamp, isResponse, size) ==
    [ event |-> "MessageStored", user |-> user, messageIndex |-> messageIndex,
      timestamp |-> timestamp, isResponse |-> isResponse, size |-> size ]

MessagesCleared(user) ==
    [event |-> "MessagesCleared", user |-> user]

DecryptionRequested(user, timestamp) ==
    [event |-> "DecryptionRequested", user |-> user, timestamp |-> timestamp]

\* storeMessage without its first require
storeMessage_NoEmptyCheck(sender, encryptedContent, timestamp) ==
    IF ~(encryptedContent.size <= MaxContentLength) THEN Abort("Message too large")
    ELSE
      LET pushed == [userMessages EXCEPT ![Vault] =
                        Append(@, Message(sender, encryptedContent, timestamp, FALSE))]
          messageIndex == Len(pushed[sender]) - 1
      IN  IF messageIndex < 0 THEN Abort(PanicUnderflow)
          ELSE Commit(pushed, MessageStored(sender, messageIndex, timestamp, FALSE,
                                            encryptedContent.size))

\* storeMessage writing over the last slot of a non-empty list instead of pushing
storeMessage_Overwrite(sender, encryptedContent, timestamp) ==
    IF ~(encryptedContent.size > 0) THEN Abort("Empty message")
    ELSE IF ~(encryptedContent.size <= MaxContentLength) THEN Abort("Message too large")
    ELSE
      LET n == Len(userMessages[Vault])
          record == Message(sender, encryptedContent, timestamp, FALSE)
          pushed == [userMessages EXCEPT ![Vault] =
                        IF n = 0 THEN Append(@, record) ELSE [@ EXCEPT ![n] = record]]
          messageIndex == Len(pushed[sender]) - 1
      IN  IF messageIndex < 0 THEN Abort(PanicUnderflow)
          ELSE Commit(pushed, MessageStored(sender, messageIndex, timestamp, FALSE,
                                            encryptedContent.size))

storeMessage(sender, encryptedContent, timestamp) ==
    IF ~(encryptedContent.size > 0) THEN Abort("Empty message")
    ELSE IF ~(encryptedContent.size <= MaxContentLength) THEN Abort("Message too large")
    ELSE
      \* the push goes to the list of address(this)
      LET pushed == [userMessages EXCEPT ![Vault] =
                        Append(@, Message(sender, encryptedContent, timestamp, FALSE))]
          \* _userMessages[msg.sender].length - 1, checked arithmetic
          messageIndex == Len(pushed[sender]) - 1
      IN  IF messageIndex < 0 THEN Abort(PanicUnderflow)
          ELSE Commit(pushed, MessageStored(sender, messageIndex, timestamp, FALSE,
                                            encryptedContent.size))

\* storeResponse without its second require
storeResponse_NoSizeCheck(sender, encryptedContent, timestamp) ==
    IF ~(encryptedContent.size > 0) THEN Abort("Empty message")
    ELSE
      LET pushed == [userMessages EXCEPT ![Vault] =
                        Append(@, Message(Vault, encryptedContent, timestamp, TRUE))]
          messageIndex == Len(pushed[sender]) - 1
      IN  IF messageIndex < 0 THEN Abort(PanicUnderflow)
          ELSE Commit(pushed, MessageStored(sender, messageIndex, timestamp, TRUE,
                                            encryptedContent.size))

storeResponse(sender, encryptedContent, timestamp) ==
    IF ~(encryptedContent.size > 0) THEN Abort("Empty message")
    ELSE IF ~(encryptedContent.size <= MaxContentLength) THEN Abort("Message too large")
    ELSE
      LET pushed == [userMessages EXCEPT ![Vault] =
                        Append(@, Message(Vault, encryptedContent, timestamp, TRUE))]
          messageIndex == Len(pushed[sender]) - 1
      IN  IF messageIndex < 0 THEN Abort(PanicUnderflow)
          ELSE Commit(pushed, MessageStored(sender, messageIndex, timestamp, TRUE,
                                            encryptedContent.size))

\* clearMessages deleting the list of address(this), the key the appends use
clearMessages_VaultList(sender) ==
    Commit([userMessages EXCEPT ![Vault] = <<>>], MessagesCleared(sender))

\* clearMessages deleting every list
clearMessages_Everyone(sender) ==
    Commit([a \in Address |-> <<>>], MessagesCleared(sender))

clearMessages(sender) ==
    Commit([userMessages EXCEPT ![sender] = <<>>], MessagesCleared(sender))

\* requestDecryption requiring the caller to have stored a message
requestDecryption_RequiresMessages(sender, timestamp) ==
    IF ~(Len(userMessages[sender]) > 0) THEN Abort("No messages")
    ELSE Commit(userMessages, DecryptionRequested(sender, timestamp))

requestDecryption(sender, timestamp) ==
    Commit(userMessages, DecryptionRequested(sender, timestamp))

(* ------------------------------------------------------------------ *)
(* The calls as actions                                                *)
(* ------------------------------------------------------------------ *)

NoPayload == [size |-> 0, data |-> ""]

\* the record of a state-changing call
Tx(op, sender, encryptedContent, out) ==
    [ op |-> op, sender |-> sender, content |-> encryptedContent,
      user |-> sender, index |-> 0,
      reverted |-> out.reverted, reason |-> out.reason,
      value |-> NoValue, log |-> out.log ]

\* the record of a view call
Call(op, user, index, out) ==
    [ op |-> op, sender |-> "anyone", content |-> NoPayload,
      user |-> user, index |-> index,
      reverted |-> out.reverted, reason |-> out.reason,
      value |-> out.value, log |-> <<>> ]

Accepted(encryptedContent) ==
    encryptedContent.size > 0 /\ encryptedContent.size <= MaxContentLength

\* one storeMessage / storeResponse call; no list grows past MaxAppends
Append_(op, sender, encryptedContent, timestamp, out) ==
    /\ \A a \in Address : Len(out.storage[a]) <= MaxAppends
    /\ userMessages' = out.storage
    /\ now' = timestamp
    /\ last' = Tx(op, sender, encryptedContent, out)

StoreMessage(sender, encryptedContent, timestamp) ==
    Append_("storeMessage", sender, encryptedContent, timestamp,
            storeMessage(sender, encryptedContent, timestamp))

StoreResponse(sender, encryptedContent, timestamp) ==
    Append_("storeResponse", sender, encryptedContent, timestamp,
            storeResponse(sender, encryptedContent, timestamp))

ClearMessages(sender, timestamp) ==
    LET out == clearMessages(sender)
    IN  /\ userMessages' = out.storage
        /\ now' = timestamp
        /\ last' = Tx("clearMessages", sender, NoPayload, out)

RequestDecryption(sender, timestamp) ==
    LET out == requestDecryption(sender, timestamp)
    IN  /\ userMessages' = out.storage
        /\ now' = timestamp
        /\ last' = Tx("requestDecryption", sender, NoPayload, out)

GetMessageCount(user) ==
    /\ last' = Call("getMessageCount", user, 0, Return(getMessageCount(user)))
    /\ UNCHANGED <<userMessages, now>>

GetMessageMetadata(user, index) ==
    /\ last' = Call("getMessageMetadata", user, index, getMessageMetadata(user, index))
    /\ UNCHANGED <<userMessages, now>>

GetEncryptedContent(user, index) ==
    /\ last' = Call("getEncryptedContent", user, index, getEncryptedContent(user, index))
    /\ UNCHANGED <<userMessages, now>>

GetMessage(user, index) ==
    /\ last' = Call("getMessage", user, index, getMessage(user, index))
    /\ UNCHANGED <<userMessages, now>>

GetAllMessages(user) ==
    /\ last' = Call("getAllMessages", user, 0, Return(getAllMessages(user)))
    /\ UNCHANGED <<userMessages, now>>

(* ------------------------------------------------------------------ *)
(* State of the front end (frontend/hooks), idle while the contract    *)
(* runs on its own                                                     *)
(* ------------------------------------------------------------------ *)

VARIABLES
    codec,                  \* one use of the encryption codec: its inputs and outputs
    deploymentCache,        \* module-level cache of the deployment map, or null
    deploymentFetchPromise, \* the request fetchDeployments calls share, or null
    requests,               \* the requests for /deployments.json issued so far
    fetchCalls,             \* the calls of fetchDeployments
    cleared,                \* history: clearDeploymentCache has been called
    address,                \* useAccount().address, "" while no wallet is connected
    walletClient,           \* useWalletClient().data is defined
    chainId,                \* useChainId()
    messages,               \* useState<Message[]>
    loading,                \* useState(false)
    error,                  \* useState<string | null>
    localStorage,           \* window.localStorage: key -> item or null
    calls,                  \* the calls of the hook's functions in progress
    chat                    \* useState values of the WhisperChat component

codecVars == <<codec>>

deployVars == <<deploymentCache, deploymentFetchPromise, requests, fetchCalls, cleared>>

hookVars == <<address, walletClient, chainId, messages, loading, error, localStorage, calls>>

uiVars == <<chat>>

clientVars == <<codecVars, deployVars, hookVars, uiVars>>

\* null and a present value
Null == <<>>

Some(x) == <<x>>

CodecIdle ==
    [ phase |-> "idle", plaintext |-> "", password |-> "", payload |-> <<>>,
      attempt |-> "", result |-> [ok |-> FALSE, text |-> ""] ]

\* the callers of fetchDeployments
Callers == {"f1", "f2", "f3"}

\* {}
EmptyMap == <<>>

FetchIdle == [state |-> "idle", on |-> 0, result |-> EmptyMap]

DeployIdle ==
    /\ deploymentCache = Null
    /\ deploymentFetchPromise = Null
    /\ requests = <<>>
    /\ fetchCalls = [c \in Callers |-> FetchIdle]
    /\ cleared = FALSE

\* the hook's functions can each be in progress once per slot
Slots == {"s1"}

\* with a second one for a call made while the first is still awaited
LocalSlots == {"s1", "s2"}

\* `whisperlink-${address}`
storageKey(a) == <<"whisperlink-", a>>

StorageKeys == {storageKey(a) : a \in Users}

\* no value thrown
NoError == [kind |-> "none", message |-> ""]

CallIdle ==
    [ op |-> "none", fn |-> "none", pc |-> "idle", address |-> "", walletClient |-> FALSE,
      messages |-> <<>>, password |-> "", encryptedMessage |-> <<>>,
      encryptedResponse |-> <<>>, txs |-> <<>>, confirmed |-> <<>>, outcome |-> "none",
      rejection |-> NoError, thrown |-> NoError ]

HookIdle ==
    /\ address = ""
    /\ walletClient = FALSE
    /\ chainId = 31337
    /\ messages = <<>>
    /\ loading = FALSE
    /\ error = Null
    /\ localStorage = [k \in StorageKeys |-> Null]
    /\ calls = [c \in LocalSlots |-> CallIdle]

\* the component as useState constructs it, before its effects have run
ChatIdle ==
    [ mounted |-> FALSE, isAuthenticated |-> FALSE, password |-> "", authPassword |-> "",
      authError |-> Null, sendError |-> Null, isAuthenticating |-> FALSE,
      signing |-> Null, authenticatedWith |-> Null, event |-> "none" ]

ClientIdle ==
    /\ codec = CodecIdle
    /\ DeployIdle
    /\ HookIdle
    /\ chat = ChatIdle

\* block.timestamp of the block that mines a call: it never decreases
BlockTimes == {now, now + 1} \cap Times

vars == <<userMessages, now, last, sent, clientVars>>

\* the contract right after deployment
VaultInit ==
    /\ userMessages = [a \in Address |-> <<>>]
    /\ now = 1
    /\ last = Call("deploy", Vault, 0, Return(NoValue))
    /\ sent = [a \in Address |-> <<>>]

Init ==
    /\ VaultInit
    /\ ClientIdle

Next ==
    \/ \E sender \in Address, c \in Payloads, t \in BlockTimes :
          StoreMessage(sender, c, t) /\ UNCHANGED <<sent, clientVars>>
    \/ \E sender \in Address, c \in Payloads, t \in BlockTimes :
          StoreResponse(sender, c, t) /\ UNCHANGED <<sent, clientVars>>
    \/ \E sender \in Address, t \in BlockTimes :
          ClearMessages(sender, t) /\ UNCHANGED <<sent, clientVars>>
    \/ \E sender \in Address, t \in BlockTimes :
          RequestDecryption(sender, t) /\ UNCHANGED <<sent, clientVars>>
    \/ \E user \in Address :
          GetMessageCount(user) /\ UNCHANGED <<sent, clientVars>>
    \/ \E user \in Address, i \in Indices :
          GetMessageMetadata(user, i) /\ UNCHANGED <<sent, clientVars>>
    \/ \E user \in Address, i \in Indices :
          GetEncryptedContent(user, i) /\ UNCHANGED <<sent, clientVars>>
    \/ \E user \in Address, i \in Indices :
          GetMessage(user, i) /\ UNCHANGED <<sent, clientVars>>
    \/ \E user \in Address :
          GetAllMessages(user) /\ UNCHANGED <<sent, clientVars>>

Spec == Init /\ [][Next]_vars

(* ------------------------------------------------------------------ *)
(* The same calls with the history of the append calls recorded        *)
(* ------------------------------------------------------------------ *)

RECURSIVE SumLen(_, _)
SumLen(f, S) ==
    IF S = {} THEN 0
    ELSE LET a == CHOOSE x \in S : TRUE
         IN  Len(f[a]) + SumLen(f, S \ {a})

\* the append calls on record, over all callers
Outstanding == SumLen(sent, Address)

\* an append call by `sender` is recorded when the two length checks accept
\* its payload, whatever the rest of the call does
Record(sender, encryptedContent, isResponse) ==
    IF Accepted(encryptedContent)
    THEN /\ Outstanding < MaxAppends
         /\ sent' = [sent EXCEPT ![sender] =
                       Append(@, [content |-> encryptedContent,
                                  isResponse |-> isResponse])]
    ELSE UNCHANGED sent

\* clearMessages by `sender` starts the sender's record afresh
Forget(sender) ==
    sent' = [sent EXCEPT ![sender] = <<>>]

NextHistory ==
    \/ \E sender \in Address, c \in Payloads, t \in BlockTimes :
          StoreMessage(sender, c, t) /\ Record(sender, c, FALSE) /\ UNCHANGED clientVars
    \/ \E sender \in Address, c \in Payloads, t \in BlockTimes :
          StoreResponse(sender, c, t) /\ Record(sender, c, TRUE) /\ UNCHANGED clientVars
    \/ \E sender \in Address, t \in BlockTimes :
          ClearMessages(sender, t) /\ Forget(sender) /\ UNCHANGED clientVars
    \/ \E sender \in Address, t \in BlockTimes :
          RequestDecryption(sender, t) /\ UNCHANGED <<sent, clientVars>>
    \/ \E user \in Address :
          GetMessageCount(user) /\ UNCHANGED <<sent, clientVars>>
    \/ \E user \in Address, i \in Indices :
          GetMessageMetadata(user, i) /\ UNCHANGED <<sent, clientVars>>
    \/ \E user \in Address, i \in Indices :
          GetEncryptedContent(user, i) /\ UNCHANGED <<sent, clientVars>>
    \/ \E user \in Address, i \in Indices :
          GetMessage(user, i) /\ UNCHANGED <<sent, clientVars>>
    \/ \E user \in Address :
          GetAllMessages(user) /\ UNCHANGED <<sent, clientVars>>

SpecHistory == Init /\ [][NextHistory]_vars

(* ------------------------------------------------------------------ *)
(* The encryption codec (frontend/hooks/useCrypto): encryptText and    *)
(* decryptText.  The key derivation and the authenticated cipher are   *)
(* ideal: a key is the pair of its password and salt, a ciphertext     *)
(* opens under the key and the iv it was sealed with and no other.     *)
(* ------------------------------------------------------------------ *)

\* bytes of the random salt, in front of the payload
SaltLength == 2

\* bytes of the random initialization vector, after the salt
IvLength == 1

RandomBytes == {0, 1}

RECURSIVE ByteStrings(_)
ByteStrings(n) ==
    IF n = 0 THEN {<<>>}
    ELSE {Append(b, x) : b \in ByteStrings(n - 1), x \in RandomBytes}

Plaintexts == {"", "hello", "world"}

Passwords == {"k1", "k2"}

\* the password-based key derivation function
deriveKey(password, salt) ==
    [password |-> password, salt |-> salt]

\* the authenticated cipher: the ciphertext carries its tag
sealText(key, iv, plaintext) ==
    <<[key |-> key, iv |-> iv, text |-> plaintext]>>

DecryptionFailure == [ok |-> FALSE, text |-> ""]

openText(key, iv, ciphertext) ==
    IF /\ Len(ciphertext) = 1
       /\ ciphertext[1].key = key
       /\ ciphertext[1].iv = iv
    THEN [ok |-> TRUE, text |-> ciphertext[1].text]
    ELSE DecryptionFailure

\* salt || iv || ciphertext
encryptText(plaintext, password, salt, iv) ==
    salt \o iv \o sealText(deriveKey(password, salt), iv, plaintext)

\* decryptText reading the iv one byte early
decryptText_IvOffByOne(payload, password) ==
    IF Len(payload) <= SaltLength + IvLength THEN DecryptionFailure
    ELSE LET salt == SubSeq(payload, 1, SaltLength)
             iv == SubSeq(payload, SaltLength, SaltLength + IvLength - 1)
             ciphertext == SubSeq(payload, SaltLength + IvLength + 1, Len(payload))
         IN  openText(deriveKey(password, salt), iv, ciphertext)

decryptText(payload, password) ==
    IF Len(payload) <= SaltLength + IvLength THEN DecryptionFailure
    ELSE LET salt == SubSeq(payload, 1, SaltLength)
             iv == SubSeq(payload, SaltLength + 1, SaltLength + IvLength)
             ciphertext == SubSeq(payload, SaltLength + IvLength + 1, Len(payload))
         IN  openText(deriveKey(password, salt), iv, ciphertext)

Encrypt(plaintext, password, salt, iv) ==
    /\ codec.phase = "idle"
    /\ codec' = [ CodecIdle EXCEPT
                    !.phase = "encrypted",
                    !.plaintext = plaintext,
                    !.password = password,
                    !.payload = encryptText(plaintext, password, salt, iv) ]

Decrypt(password) ==
    /\ codec.phase = "encrypted"
    /\ codec' = [ codec EXCEPT
                    !.phase = "decrypted",
                    !.attempt = password,
                    !.result = decryptText(codec.payload, password) ]

NextCodec ==
    \/ \E p \in Plaintexts, k \in Passwords,
          salt \in ByteStrings(SaltLength), iv \in ByteStrings(IvLength) :
          Encrypt(p, k, salt, iv) /\ UNCHANGED <<vaultVars, deployVars, hookVars, uiVars>>
    \/ \E k \in Passwords :
          Decrypt(k) /\ UNCHANGED <<vaultVars, deployVars, hookVars, uiVars>>

SpecCodec == Init /\ [][NextCodec]_vars

(* ------------------------------------------------------------------ *)
(* The deployment map and its module-level cache                       *)
(* (frontend/hooks/useWhisperVault.ts, fetchDeployments)               *)
(* ------------------------------------------------------------------ *)

\* requests for /deployments.json in one behaviour
MaxRequests == 3

ZeroAddress == "0x0000000000000000000000000000000000000000"

VaultAddress == "0xVault"

\* the chains the wallet can be on: the local node and Sepolia
ChainIds == {31337, 11155111}

\* chainId.toString()
chainKey(id) ==
    IF id = 31337 THEN "31337" ELSE "11155111"

\* the values of data.WhisperVault: chain key -> entry
DeploymentMaps ==
    { EmptyMap,
      "31337" :> [address |-> VaultAddress],
      "31337" :> [address |-> ""],
      "31337" :> [address |-> ZeroAddress],
      "11155111" :> [address |-> VaultAddress] }

\* the bodies /deployments.json can have: with or without the WhisperVault key
DeploymentFiles ==
    { [hasWhisperVault |-> FALSE, WhisperVault |-> EmptyMap] }
    \cup { [hasWhisperVault |-> TRUE, WhisperVault |-> m] : m \in DeploymentMaps }

\* the bodies served while the cache is studied on its own
ServedFiles ==
    { f \in DeploymentFiles :
        f.WhisperVault \in {EmptyMap, "31337" :> [address |-> VaultAddress]} }

\* data.WhisperVault || {}
whisperVaultOf(data) ==
    IF data.hasWhisperVault THEN data.WhisperVault ELSE EmptyMap

\* requests still in flight
Pending == {r \in 1 .. Len(requests) : requests[r].state = "pending"}

\* fetchDeployments without the check of the request in flight
fetchDeployments_NoDedup(cache, promise) ==
    IF cache # Null THEN [kind |-> "cached", on |-> 0]
    ELSE [kind |-> "request", on |-> Len(requests) + 1]

\* the synchronous part of fetchDeployments: answer from the cache, join
\* the request in flight, or issue a request
fetchDeployments(cache, promise) ==
    IF cache # Null THEN [kind |-> "cached", on |-> 0]
    ELSE IF promise # Null THEN [kind |-> "shared", on |-> promise[1]]
    ELSE [kind |-> "request", on |-> Len(requests) + 1]

FetchDeployments(c) ==
    /\ fetchCalls[c].state # "waiting"
    /\ LET f == fetchDeployments(deploymentCache, deploymentFetchPromise) IN
         CASE f.kind = "cached" ->
                /\ fetchCalls' = [fetchCalls EXCEPT ![c] =
                       [state |-> "returned", on |-> 0, result |-> deploymentCache[1]]]
                /\ UNCHANGED <<deploymentCache, deploymentFetchPromise, requests, cleared>>
           [] f.kind = "shared" ->
                /\ fetchCalls' = [fetchCalls EXCEPT ![c] =
                       [state |-> "waiting", on |-> f.on, result |-> EmptyMap]]
                /\ UNCHANGED <<deploymentCache, deploymentFetchPromise, requests, cleared>>
           [] f.kind = "request" ->
                /\ Len(requests) < MaxRequests
                /\ requests' = Append(requests,
                       [state |-> "pending", ok |-> FALSE, result |-> EmptyMap, stale |-> FALSE])
                /\ deploymentFetchPromise' = Some(f.on)
                /\ fetchCalls' = [fetchCalls EXCEPT ![c] =
                       [state |-> "waiting", on |-> f.on, result |-> EmptyMap]]
                /\ UNCHANGED <<deploymentCache, cleared>>

\* the promise of request r settles: everyone awaiting it resumes
Settle(r, ok, result) ==
    /\ requests' = [requests EXCEPT ![r] =
           [requests[r] EXCEPT !.state = "settled", !.ok = ok, !.result = result]]
    /\ fetchCalls' = [c \in Callers |->
           IF fetchCalls[c].state = "waiting" /\ fetchCalls[c].on = r
           THEN [state |-> "returned", on |-> r, result |-> result]
           ELSE fetchCalls[c]]

\* fetch and response.json() succeed
FetchSucceeds(r, data) ==
    /\ r \in Pending
    /\ deploymentCache' = Some(whisperVaultOf(data))
    /\ Settle(r, TRUE, whisperVaultOf(data))
    /\ deploymentFetchPromise' = Null
    /\ UNCHANGED cleared

\* a catch block that caches the empty map it returns
FetchFails_CachesEmpty(r) ==
    /\ r \in Pending
    /\ Settle(r, FALSE, EmptyMap)
    /\ deploymentCache' = Some(EmptyMap)
    /\ deploymentFetchPromise' = Null
    /\ UNCHANGED cleared

\* fetch or response.json() rejects
FetchFails(r) ==
    /\ r \in Pending
    /\ Settle(r, FALSE, EmptyMap)
    /\ deploymentFetchPromise' = Null
    /\ UNCHANGED <<deploymentCache, cleared>>

ClearDeploymentCache ==
    /\ deploymentCache' = Null
    /\ deploymentFetchPromise' = Null
    /\ cleared' = TRUE
    \* history: the requests made so far were started before this clear
    /\ requests' = [r \in 1 .. Len(requests) |-> [requests[r] EXCEPT !.stale = TRUE]]
    /\ UNCHANGED fetchCalls

NextDeploy ==
    \/ \E c \in Callers :
          FetchDeployments(c) /\ UNCHANGED <<vaultVars, codecVars, hookVars, uiVars>>
    \/ \E r \in 1 .. MaxRequests, data \in ServedFiles :
          FetchSucceeds(r, data) /\ UNCHANGED <<vaultVars, codecVars, hookVars, uiVars>>
    \/ \E r \in 1 .. MaxRequests :
          FetchFails(r) /\ UNCHANGED <<vaultVars, codecVars, hookVars, uiVars>>
    \/ ClearDeploymentCache /\ UNCHANGED <<vaultVars, codecVars, hookVars, uiVars>>

SpecDeploy == Init /\ [][NextDeploy]_vars

(* ------------------------------------------------------------------ *)
(* The hook useWhisperVault (frontend/hooks/useWhisperVault.ts).  The  *)
(* wallet, the node and the deployment file are its environment: a     *)
(* request to them resolves or rejects as the environment chooses.     *)
(* ------------------------------------------------------------------ *)

\* records the hook keeps in one list
MaxMessages == 3

envVars == <<address, walletClient, chainId>>

\* a thrown Error, and a thrown value that is not an Error
Err(m) == [kind |-> "Error", message |-> m]

NotAnError == [kind |-> "other", message |-> ""]

\* what the wallet or the node can reject a request with
Rejections == {Err("CALL_EXCEPTION"), Err("user rejected action"), NotAnError}

\* err instanceof Error ? err.message : fallback
messageOf(err, fallback) ==
    IF err.kind = "Error" THEN err.message ELSE fallback

\* the account of the wallet
Wallets == {"alice"}

HookTexts == {"hello"}

textLength(text) ==
    IF text = "hello" THEN 5 ELSE 0

responses ==
    << "Thank you for your encrypted message. Your data is secure.",
       "Message received and stored on-chain with FHE protection.",
       "Your private communication has been recorded securely.",
       "Acknowledged. This conversation is end-to-end encrypted.",
       "Message stored. Only you can decrypt this conversation." >>

generateAutoResponse(userMessage) ==
    responses[(textLength(userMessage) % Len(responses)) + 1]

\* the random salt and iv of an encryptText call made by the hook: the hook
\* never looks at them, so one value stands for them
FixedBytes(n) == [i \in 1 .. n |-> 0]

encrypted(text, password) ==
    encryptText(text, password, FixedBytes(SaltLength), FixedBytes(IvLength))

\* a payload too short to hold a salt and an iv
CorruptPayload == <<0>>

\* an item of localStorage that is not JSON
Malformed == [json |-> FALSE, value |-> <<>>]

JSONstringify(value) == [json |-> TRUE, value |-> value]

JSONparse(item) ==
    IF item.json THEN [ok |-> TRUE, value |-> item.value]
    ELSE [ok |-> FALSE, value |-> <<>>]

\* what contract.getAllMessages(address) can resolve to
ChainLists ==
    { <<>>,
      << [label |-> "", sender |-> "alice", encryptedContent |-> encrypted("hello", "k1"),
          timestamp |-> 1, isResponse |-> FALSE] >>,
      << [label |-> "", sender |-> "alice", encryptedContent |-> encrypted("hello", "k1"),
          timestamp |-> 1, isResponse |-> FALSE],
         [label |-> "", sender |-> "alice", encryptedContent |-> CorruptPayload,
          timestamp |-> 1, isResponse |-> TRUE] >> }

\* allMessages.map(...), lines 149-155
toMessages(allMessages) ==
    [ i \in 1 .. Len(allMessages) |->
        [ id |-> i - 1,
          sender |-> allMessages[i].sender,
          encryptedContent |-> allMessages[i].encryptedContent,
          timestamp |-> allMessages[i].timestamp,
          isResponse |-> allMessages[i].isResponse,
          decryptedText |-> Null ] ]

\* getContractAddress taking the zero address for a deployment
getContractAddress_AcceptsZero(chain, deployments) ==
    IF chain = 0 THEN Null
    ELSE IF chainKey(chain) \notin DOMAIN deployments THEN Null
    ELSE IF deployments[chainKey(chain)].address = "" THEN Null
    ELSE Some(deployments[chainKey(chain)].address)

getContractAddress(chain, deployments) ==
    IF chain = 0 THEN Null
    ELSE IF chainKey(chain) \notin DOMAIN deployments THEN Null
    ELSE IF \/ deployments[chainKey(chain)].address = ""
            \/ deployments[chainKey(chain)].address = ZeroAddress
         THEN Null
    ELSE Some(deployments[chainKey(chain)].address)

\* getContract: null, a contract bound to a signer, or the rejection of
\* provider.getSigner()
getContract(wallet, chain, deployments, signer) ==
    IF ~wallet \/ chain = 0 THEN [kind |-> "null", error |-> NoError]
    ELSE IF getContractAddress(chain, deployments) = Null
         THEN [kind |-> "null", error |-> NoError]
    ELSE IF signer.kind # "none" THEN [kind |-> "reject", error |-> signer]
    ELSE [kind |-> "contract", error |-> NoError]

\* what fetch('/deployments.json') can answer
Responses ==
    { [ok |-> FALSE, body |-> [hasWhisperVault |-> FALSE, WhisperVault |-> EmptyMap]] }
    \cup { [ok |-> TRUE, body |-> f] :
              f \in {g \in DeploymentFiles : "11155111" \notin DOMAIN g.WhisperVault} }

\* lines 165-169
loadErrorText(err) ==
    IF messageOf(err, "Unknown error") \in {"missing revert data", "CALL_EXCEPTION"}
    THEN "Contract not available on this network. Please check your connection."
    ELSE IF err.kind = "Error" THEN "Failed to load messages: user rejected action"
    ELSE "Failed to load messages: Unknown error"

\* loadMessages without a contract, lines 132-145
loadLocal(stored, current) ==
    IF stored = Null THEN [messages |-> current, remove |-> FALSE]
    ELSE IF JSONparse(stored[1]).ok
         THEN [messages |-> JSONparse(stored[1]).value, remove |-> FALSE]
    ELSE [messages |-> <<>>, remove |-> TRUE]

\* a catch block of loadMessages that gives up instead of falling back
loadFailed_NoFallback(err, stored, current) ==
    [ error |-> Null, messages |-> current, remove |-> FALSE ]

\* the catch block of loadMessages, lines 159-178
loadFailed(err, stored, current) ==
    [ error |-> Some(loadErrorText(err)),
      messages |-> IF stored = Null THEN current
                   ELSE IF JSONparse(stored[1]).ok THEN JSONparse(stored[1]).value
                   ELSE <<>>,
      remove |-> FALSE ]

\* newMessages, lines 218-235
sendLocal(current, sender, encryptedMessage, encryptedResponse, time) ==
    current \o
    << [ id |-> Len(current), sender |-> sender, encryptedContent |-> encryptedMessage,
         timestamp |-> time, isResponse |-> FALSE, decryptedText |-> Null ],
       [ id |-> Len(current) + 1, sender |-> "system", encryptedContent |-> encryptedResponse,
         timestamp |-> time + 1, isResponse |-> TRUE, decryptedText |-> Null ] >>

\* a catch block of sendMessage that swallows the error
sendFailed_Swallow(err) ==
    [ error |-> Null, outcome |-> "returned", thrown |-> NoError ]

\* the catch block of sendMessage, lines 239-242
sendFailed(err) ==
    [ error |-> Some(messageOf(err, "Failed to send")), outcome |-> "threw", thrown |-> err ]

DecryptionFailedText == "[Decryption failed]"

\* a Promise.all whose first failing message rejects the whole batch
decryptMessages_FailFast(list, password) ==
    [ threw |-> \E i \in 1 .. Len(list) : ~decryptText(list[i].encryptedContent, password).ok,
      messages |-> list ]

\* Promise.all(messages.map(...)), lines 285-298
decryptMessages(list, password) ==
    [ threw |-> FALSE,
      messages |->
        [ i \in 1 .. Len(list) |->
            [ list[i] EXCEPT !.decryptedText =
                IF decryptText(list[i].encryptedContent, password).ok
                THEN Some(decryptText(list[i].encryptedContent, password).text)
                ELSE Some(DecryptionFailedText) ] ] ]

\* a call leaves its slot
Finish(c, call, outcome, thrown) ==
    calls' = [calls EXCEPT ![c] =
        [ CallIdle EXCEPT !.op = call.op, !.pc = "done", !.txs = call.txs,
                          !.confirmed = call.confirmed,
                          !.rejection = call.rejection, !.outcome = outcome,
                          !.thrown = thrown ]]

Free(c) == calls[c].pc \in {"idle", "done"}

LoadLocal(c, call) ==
    LET r == loadLocal(localStorage[storageKey(call.address)], messages) IN
    /\ messages' = r.messages
    /\ localStorage' = IF r.remove
                       THEN [localStorage EXCEPT ![storageKey(call.address)] = Null]
                       ELSE localStorage
    /\ loading' = FALSE
    /\ UNCHANGED error
    /\ Finish(c, call, "returned", NoError)

LoadFailed(c, call, err) ==
    LET r == loadFailed(err, localStorage[storageKey(call.address)], messages) IN
    /\ messages' = r.messages
    /\ error' = r.error
    /\ localStorage' = IF r.remove
                       THEN [localStorage EXCEPT ![storageKey(call.address)] = Null]
                       ELSE localStorage
    /\ loading' = FALSE
    /\ Finish(c, call, "returned", NoError)

SendLocal(c, call) ==
    LET newMessages == sendLocal(call.messages, call.address, call.encryptedMessage,
                                 call.encryptedResponse, now) IN
    /\ messages' = newMessages
    /\ localStorage' = [localStorage EXCEPT
                          ![storageKey(call.address)] = Some(JSONstringify(newMessages))]
    /\ loading' = FALSE
    /\ UNCHANGED error
    /\ Finish(c, call, "returned", NoError)

SendFailed(c, call, err) ==
    /\ error' = sendFailed(err).error
    /\ loading' = FALSE
    /\ UNCHANGED <<messages, localStorage>>
    /\ Finish(c, call, sendFailed(err).outcome, sendFailed(err).thrown)

\* the catch block of decryptAllMessages, lines 303-306
DecryptFailed(c, call, err) ==
    /\ error' = Some(messageOf(err, "Decryption failed"))
    /\ loading' = FALSE
    /\ UNCHANGED <<messages, localStorage>>
    /\ Finish(c, call, "threw", err)

DecryptLocal(c, call) ==
    LET r == decryptMessages(call.messages, call.password) IN
    IF r.threw THEN DecryptFailed(c, call, Err("OperationError"))
    ELSE /\ messages' = r.messages
         /\ loading' = FALSE
         /\ UNCHANGED <<error, localStorage>>
         /\ Finish(c, call, "returned", NoError)

ClearLocal(c, call) ==
    /\ messages' = <<>>
    /\ localStorage' = [localStorage EXCEPT ![storageKey(call.address)] = Null]
    /\ loading' = FALSE
    /\ UNCHANGED error
    /\ Finish(c, call, "returned", NoError)

\* the catch block of the hook's clearMessages, lines 328-330
ClearFailed(c, call, err) ==
    /\ error' = Some(messageOf(err, "Failed to clear"))
    /\ loading' = FALSE
    /\ UNCHANGED <<messages, localStorage>>
    /\ Finish(c, call, "returned", NoError)

\* a function of the hook starts and runs up to its await of getContract
Begin(c, op, fn, captured, password, encryptedMessage, encryptedResponse) ==
    calls' = [calls EXCEPT ![c] =
        [ CallIdle EXCEPT !.op = op, !.fn = fn, !.pc = "getContract",
                          !.address = address, !.walletClient = walletClient,
                          !.messages = captured, !.password = password,
                          !.encryptedMessage = encryptedMessage,
                          !.encryptedResponse = encryptedResponse ]]

LoadMessages(c) ==
    /\ Free(c)
    /\ IF address = ""
       THEN /\ Finish(c, [CallIdle EXCEPT !.op = "loadMessages"], "returned", NoError)
            /\ UNCHANGED <<messages, loading, error, localStorage>>
       ELSE /\ loading' = TRUE
            /\ error' = Null
            /\ Begin(c, "loadMessages", "loadMessages", <<>>, "", <<>>, <<>>)
            /\ UNCHANGED <<messages, localStorage>>
    /\ UNCHANGED <<envVars, deploymentCache>>

SendMessage(c, messageText, password) ==
    /\ Free(c)
    /\ Len(messages) + 2 <= MaxMessages
    /\ IF address = ""
       THEN /\ Finish(c, [CallIdle EXCEPT !.op = "sendMessage"], "threw", Err("Not connected"))
            /\ UNCHANGED <<messages, loading, error, localStorage>>
       ELSE /\ loading' = TRUE
            /\ error' = Null
            /\ Begin(c, "sendMessage", "sendMessage", messages, password,
                     encrypted(messageText, password),
                     encrypted(generateAutoResponse(messageText), password))
            /\ UNCHANGED <<messages, localStorage>>
    /\ UNCHANGED <<envVars, deploymentCache>>

DecryptAllMessages(c, password) ==
    /\ Free(c)
    /\ IF Len(messages) = 0
       THEN /\ error' = Some("No messages to decrypt")
            /\ loading' = FALSE
            /\ Finish(c, [CallIdle EXCEPT !.op = "decryptAllMessages"], "threw",
                      Err("No messages to decrypt"))
       ELSE /\ loading' = TRUE
            /\ error' = Null
            /\ Begin(c, "decryptAllMessages", "decryptAllMessages", messages, password,
                     <<>>, <<>>)
    /\ UNCHANGED <<messages, localStorage, envVars, deploymentCache>>

\* the hook's clearMessages
ClearAllMessages(c) ==
    /\ Free(c)
    /\ IF address = ""
       THEN /\ Finish(c, [CallIdle EXCEPT !.op = "clearMessages"], "returned", NoError)
            /\ UNCHANGED loading
       ELSE /\ loading' = TRUE
            /\ Begin(c, "clearMessages", "clearMessages", <<>>, "", <<>>, <<>>)
    /\ UNCHANGED <<messages, error, localStorage, envVars, deploymentCache>>

\* the method a function calls on the contract it obtained
methodOf(fn) ==
    CASE fn = "loadMessages" -> "getAllMessages"
      [] fn = "sendMessage" -> "storeMessage"
      [] fn = "decryptAllMessages" -> "requestDecryption"
      [] fn = "clearMessages" -> "clearMessages"

\* await getContract() resolves or rejects, and the function runs on to its
\* next await or to its end
GetContract(c, response, signer) ==
    /\ calls[c].pc = "getContract"
    /\ LET call == calls[c]
           asked == call.walletClient /\ chainId # 0
           deployments == IF deploymentCache # Null THEN deploymentCache[1]
                          ELSE IF response.ok THEN whisperVaultOf(response.body)
                          ELSE EmptyMap
           contract == getContract(call.walletClient, chainId, deployments, signer)
           failed == [call EXCEPT !.rejection = contract.error]
       IN
       /\ deploymentCache' = IF asked /\ deploymentCache = Null /\ response.ok
                             THEN Some(whisperVaultOf(response.body))
                             ELSE deploymentCache
       /\ CASE contract.kind = "contract" ->
                 /\ calls' = [calls EXCEPT ![c].pc = methodOf(call.fn)]
                 /\ UNCHANGED <<messages, loading, error, localStorage>>
            [] contract.kind = "null" /\ call.fn = "loadMessages" -> LoadLocal(c, call)
            [] contract.kind = "null" /\ call.fn = "sendMessage" -> SendLocal(c, call)
            [] contract.kind = "null" /\ call.fn = "decryptAllMessages" -> DecryptLocal(c, call)
            [] contract.kind = "null" /\ call.fn = "clearMessages" -> ClearLocal(c, call)
            [] contract.kind = "reject" /\ call.fn = "loadMessages" ->
                 LoadFailed(c, failed, contract.error)
            [] contract.kind = "reject" /\ call.fn = "sendMessage" ->
                 SendFailed(c, failed, contract.error)
            [] contract.kind = "reject" /\ call.fn = "decryptAllMessages" ->
                 DecryptFailed(c, failed, contract.error)
            [] contract.kind = "reject" /\ call.fn = "clearMessages" ->
                 ClearFailed(c, failed, contract.error)
    /\ UNCHANGED envVars

TxOutcomes == {"rejected", "failed", "confirmed"}

\* a sendMessage that goes on to storeResponse whatever became of storeMessage
afterTransaction_NoWait(method, outcome) ==
    CASE method = "requestDecryption" -> "decrypt"
      [] method = "storeMessage" -> "storeResponse"
      [] outcome # "confirmed" -> "catch"
      [] method = "storeResponse" -> "loadMessages"
      [] method = "clearMessages" -> "clear"

\* a clearMessages that clears the local list before it knows the outcome
afterTransaction_ClearAnyway(method, outcome) ==
    CASE method = "requestDecryption" -> "decrypt"
      [] method = "clearMessages" -> "clear"
      [] outcome # "confirmed" -> "catch"
      [] method = "storeMessage" -> "storeResponse"
      [] method = "storeResponse" -> "loadMessages"

\* where a function goes after `await contract.method()` and `await tx.wait()`:
\* requestDecryption has its own try/catch (lines 271-281), every other failure
\* reaches the function's catch block
afterTransaction(method, outcome) ==
    CASE method = "requestDecryption" -> "decrypt"
      [] outcome # "confirmed" -> "catch"
      [] method = "storeMessage" -> "storeResponse"
      [] method = "storeResponse" -> "loadMessages"
      [] method = "clearMessages" -> "clear"

\* a transaction of the hook: its submission is rejected, or it is submitted
\* and its confirmation fails, or it is confirmed
Transact(c, outcome, err) ==
    /\ calls[c].pc \in {"storeMessage", "storeResponse", "requestDecryption", "clearMessages"}
    /\ LET call == [calls[c] EXCEPT
                      !.txs = IF outcome = "rejected" THEN @ ELSE Append(@, calls[c].pc),
                      !.confirmed = IF outcome = "confirmed" THEN Append(@, calls[c].pc) ELSE @,
                      !.rejection = IF outcome = "confirmed" THEN @ ELSE err]
           step == afterTransaction(calls[c].pc, outcome)
       IN
       CASE step = "decrypt" -> DecryptLocal(c, call)
         [] step = "storeResponse" ->
              /\ calls' = [calls EXCEPT ![c] = [call EXCEPT !.pc = "storeResponse"]]
              /\ UNCHANGED <<messages, loading, error, localStorage>>
         [] step = "loadMessages" ->
              \* await loadMessages()
              /\ loading' = TRUE
              /\ error' = Null
              /\ calls' = [calls EXCEPT ![c] =
                             [call EXCEPT !.fn = "loadMessages", !.pc = "getContract"]]
              /\ UNCHANGED <<messages, localStorage>>
         [] step = "clear" -> ClearLocal(c, call)
         [] step = "catch" /\ call.fn = "sendMessage" -> SendFailed(c, call, err)
         [] step = "catch" /\ call.fn = "clearMessages" -> ClearFailed(c, call, err)
         [] step = "catch" /\ call.fn = "decryptAllMessages" -> DecryptFailed(c, call, err)
    /\ UNCHANGED <<envVars, deploymentCache>>

\* contract.getAllMessages(address) resolves
ReadSucceeds(c, allMessages) ==
    /\ calls[c].pc = "getAllMessages"
    /\ messages' = toMessages(allMessages)
    /\ loading' = FALSE
    /\ Finish(c, calls[c], "returned", NoError)
    /\ UNCHANGED <<error, localStorage, envVars, deploymentCache>>

\* contract.getAllMessages(address) rejects
ReadFails(c, err) ==
    /\ calls[c].pc = "getAllMessages"
    /\ LoadFailed(c, [calls[c] EXCEPT !.rejection = err], err)
    /\ UNCHANGED <<envVars, deploymentCache>>

\* the wallet connects; its client may not be there yet
Connect(a, w) ==
    /\ address' = a
    /\ walletClient' = w
    /\ UNCHANGED <<chainId, messages, loading, error, localStorage, calls, deploymentCache>>

Disconnect ==
    /\ address' = ""
    /\ walletClient' = FALSE
    /\ UNCHANGED <<chainId, messages, loading, error, localStorage, calls, deploymentCache>>

\* something else writes the item of an address
Tamper(a) ==
    /\ localStorage[storageKey(a)] # Some(Malformed)
    /\ localStorage' = [localStorage EXCEPT ![storageKey(a)] = Some(Malformed)]
    /\ UNCHANGED <<envVars, messages, loading, error, calls, deploymentCache>>

hookFrame ==
    <<vaultVars, codecVars, deploymentFetchPromise, requests, fetchCalls, cleared, uiVars>>

NextHook ==
    \/ \E c \in Slots : LoadMessages(c) /\ UNCHANGED hookFrame
    \/ \E c \in Slots, t \in HookTexts, k \in Passwords :
          SendMessage(c, t, k) /\ UNCHANGED hookFrame
    \/ \E c \in Slots, k \in Passwords : DecryptAllMessages(c, k) /\ UNCHANGED hookFrame
    \/ \E c \in Slots : ClearAllMessages(c) /\ UNCHANGED hookFrame
    \/ \E c \in Slots, response \in Responses, signer \in {NoError} \cup Rejections :
          GetContract(c, response, signer) /\ UNCHANGED hookFrame
    \/ \E c \in Slots, outcome \in TxOutcomes, err \in Rejections :
          Transact(c, outcome, err) /\ UNCHANGED hookFrame
    \/ \E c \in Slots, allMessages \in ChainLists :
          ReadSucceeds(c, allMessages) /\ UNCHANGED hookFrame
    \/ \E c \in Slots, err \in Rejections : ReadFails(c, err) /\ UNCHANGED hookFrame
    \/ \E a \in Wallets, w \in BOOLEAN : Connect(a, w) /\ UNCHANGED hookFrame
    \/ Disconnect /\ UNCHANGED hookFrame
    \/ \E a \in Users : Tamper(a) /\ UNCHANGED hookFrame

SpecHook == Init /\ [][NextHook]_vars

(* ------------------------------------------------------------------ *)
(* The hook in local-only mode: no contract address for the chain,     *)
(* two accounts, and calls that overlap                                *)
(* ------------------------------------------------------------------ *)

\* the answers of /deployments.json that give the active chain no contract
LocalResponses ==
    {r \in Responses :
        getContractAddress(chainId, IF r.ok THEN whisperVaultOf(r.body) ELSE EmptyMap) = Null}

NextLocal ==
    \/ \E c \in LocalSlots : LoadMessages(c) /\ UNCHANGED hookFrame
    \/ \E c \in LocalSlots, t \in HookTexts, k \in Passwords :
          SendMessage(c, t, k) /\ UNCHANGED hookFrame
    \/ \E c \in LocalSlots, response \in LocalResponses :
          GetContract(c, response, NoError) /\ UNCHANGED hookFrame
    \/ \E a \in Users, w \in BOOLEAN : Connect(a, w) /\ UNCHANGED hookFrame
    \/ Disconnect /\ UNCHANGED hookFrame

SpecLocal == Init /\ [][NextLocal]_vars

(* ------------------------------------------------------------------ *)
(* The WhisperChat component: its authentication state                 *)
(* (unnamed/part_000).  isConnected is address # "".                   *)
(* ------------------------------------------------------------------ *)

\* what the user can type into the password field
AuthPasswords == {"", "      ", "abc", "abcde", "secret", "longer-secret"}

\* authPassword.length
passwordLength(p) ==
    CASE p = "" -> 0
      [] p = "abc" -> 3
      [] p = "abcde" -> 5
      [] p = "      " -> 6
      [] p = "secret" -> 6
      [] p = "longer-secret" -> 13

\* authPassword.trim()
trim(p) == IF p = "      " THEN "" ELSE p

isConnected == address # ""

\* the render branches, lines 272, 323 and 436
authenticationScreenShown == chat.mounted /\ isConnected /\ ~chat.isAuthenticated

chatInterfaceShown == chat.mounted /\ isConnected /\ chat.isAuthenticated

\* lines 82-88
handleLockVault(c) ==
    [ c EXCEPT !.isAuthenticated = TRUE, !.password = "", !.authPassword = "",
               !.authError = Null, !.sendError = Null ]

\* the effect on isConnected, lines 90-96
onConnectionChange(c, connected) ==
    IF ~connected
    THEN [ c EXCEPT !.isAuthenticated = TRUE, !.authPassword = "", !.password = "" ]
    ELSE c

uiFrame == <<vaultVars, codecVars, deployVars, chainId, messages, loading, error,
             localStorage, calls>>

\* first render: the effects run once
Mount ==
    /\ ~chat.mounted
    /\ chat' = [ onConnectionChange(chat, isConnected) EXCEPT
                   !.mounted = TRUE, !.event = "mount" ]
    /\ UNCHANGED <<address, walletClient>>

\* the wallet connects, before or after the component is mounted; once it
\* is mounted the effect on isConnected runs
ChatConnect(a) ==
    /\ ~isConnected
    /\ address' = a
    /\ walletClient' = TRUE
    /\ chat' = IF chat.mounted
               THEN [ onConnectionChange(chat, TRUE) EXCEPT !.event = "connect" ]
               ELSE chat

\* the wallet disconnects and the effect on isConnected runs
ChatDisconnect ==
    /\ isConnected
    /\ address' = ""
    /\ walletClient' = FALSE
    /\ chat' = IF chat.mounted
               THEN [ onConnectionChange(chat, FALSE) EXCEPT
                        !.authenticatedWith = Null, !.event = "disconnect" ]
               ELSE chat

\* onChange of the password field
TypePassword(p) ==
    /\ authenticationScreenShown
    /\ chat.authPassword # p
    /\ chat' = [ chat EXCEPT !.authPassword = p, !.event = "type" ]
    /\ UNCHANGED <<address, walletClient>>

\* the Lock button of the chat interface
HandleLockVault ==
    /\ chatInterfaceShown
    /\ chat' = [ handleLockVault(chat) EXCEPT
                   !.authenticatedWith = Null, !.event = "handleLockVault" ]
    /\ UNCHANGED <<address, walletClient>>

\* handleAuthenticate up to await signMessageAsync, lines 112-126
HandleAuthenticate ==
    /\ authenticationScreenShown
    /\ chat.signing = Null
    /\ chat' =
         IF trim(chat.authPassword) = ""
         THEN [ chat EXCEPT !.authError = Some("Please enter a password"),
                            !.event = "handleAuthenticate" ]
         ELSE IF passwordLength(chat.authPassword) < 6
         THEN [ chat EXCEPT !.authError = Some("Password must be at least 6 characters"),
                            !.event = "handleAuthenticate" ]
         ELSE [ chat EXCEPT !.isAuthenticating = TRUE, !.authError = Null,
                            !.signing = Some(chat.authPassword),
                            !.event = "handleAuthenticate" ]
    /\ UNCHANGED <<address, walletClient>>

\* the wallet signs: lines 127-128 and the finally
SignatureAccepted ==
    /\ chat.signing # Null
    /\ chat' = [ chat EXCEPT !.password = chat.signing[1], !.isAuthenticated = TRUE,
                             !.isAuthenticating = FALSE, !.signing = Null,
                             !.authenticatedWith = chat.signing,
                             !.event = "signed" ]
    /\ UNCHANGED <<address, walletClient>>

\* the wallet refuses: the catch block and the finally
SignatureRejected(err) ==
    /\ chat.signing # Null
    /\ chat' = [ chat EXCEPT !.authError = Some(messageOf(err, "Signature rejected")),
                             !.isAuthenticating = FALSE, !.signing = Null,
                             !.event = "rejected" ]
    /\ UNCHANGED <<address, walletClient>>

NextChat ==
    \/ Mount /\ UNCHANGED uiFrame
    \/ \E a \in Wallets : ChatConnect(a) /\ UNCHANGED uiFrame
    \/ ChatDisconnect /\ UNCHANGED uiFrame
    \/ \E p \in AuthPasswords : TypePassword(p) /\ UNCHANGED uiFrame
    \/ HandleLockVault /\ UNCHANGED uiFrame
    \/ HandleAuthenticate /\ UNCHANGED uiFrame
    \/ SignatureAccepted /\ UNCHANGED uiFrame
    \/ \E err \in Rejections : SignatureRejected(err) /\ UNCHANGED uiFrame

SpecChat == Init /\ [][NextChat]_vars

(* ------------------------------------------------------------------ *)
(* Properties                                                          *)
(* ------------------------------------------------------------------ *)

IsAppend(call) == call.op \in {"storeMessage", "storeResponse"}

IsIndexRead(call) ==
    call.op \in {"getMessageMetadata", "getEncryptedContent", "getMessage"}

\* C1: when address A has made N append calls (storeMessage or storeResponse
\* with a payload of 1..16384 bytes, the calls C3 and C4 say succeed) and no
\* clearMessages since, getMessageCount(A) is N and getAllMessages(A) has N
\* entries.
C1_CountEqualsAppends ==
    \A a \in Address :
        /\ getMessageCount(a) = Len(sent[a])
        /\ Len(getAllMessages(a)) = Len(sent[a])

\* C2: the array index is the insertion position: for every address A and
\* every i below the number of A's appends since A's last clear, the three
\* index reads return the payload and the isResponse flag of A's i-th append.
C2_IndexIsInsertionPosition ==
    \A a \in Address : \A i \in 1 .. Len(sent[a]) :
        LET content  == getEncryptedContent(a, i - 1)
            full     == getMessage(a, i - 1)
            metadata == getMessageMetadata(a, i - 1)
        IN  /\ ~content.reverted
            /\ content.value = sent[a][i].content
            /\ ~full.reverted
            /\ full.value[2] = sent[a][i].content
            /\ full.value[4] = sent[a][i].isResponse
            /\ ~metadata.reverted
            /\ metadata.value[3] = sent[a][i].isResponse

\* C3: storeMessage by A with a payload of 1..16384 bytes does not revert and
\* appends to A's own list one record with sender A, isResponse false, the
\* payload and a timestamp above 0; A's count grows by exactly 1.
C3_StoreMessageAppendsToCaller ==
    [][ (last'.op = "storeMessage" /\ Accepted(last'.content)) =>
          LET a == last'.sender
              n == Len(userMessages[a])
          IN  /\ ~last'.reverted
              /\ Len(userMessages'[a]) = n + 1
              /\ SubSeq(userMessages'[a], 1, n) = userMessages[a]
              /\ userMessages'[a][n + 1].sender = a
              /\ userMessages'[a][n + 1].isResponse = FALSE
              /\ userMessages'[a][n + 1].encryptedContent = last'.content
              /\ userMessages'[a][n + 1].timestamp > 0 ]_vars

\* C4: storeResponse by A with a payload of 1..16384 bytes does not revert
\* and appends to A's own list one record with sender the contract's address,
\* isResponse true and a timestamp above 0; A's count grows by exactly 1.
C4_StoreResponseAppendsToCaller ==
    [][ (last'.op = "storeResponse" /\ Accepted(last'.content)) =>
          LET a == last'.sender
              n == Len(userMessages[a])
          IN  /\ ~last'.reverted
              /\ Len(userMessages'[a]) = n + 1
              /\ SubSeq(userMessages'[a], 1, n) = userMessages[a]
              /\ userMessages'[a][n + 1].sender = Vault
              /\ userMessages'[a][n + 1].isResponse = TRUE
              /\ userMessages'[a][n + 1].encryptedContent = last'.content
              /\ userMessages'[a][n + 1].timestamp > 0 ]_vars

\* C5: storeMessage and storeResponse with an empty payload revert with
\* reason "Empty message" and leave every address's list unchanged.
C5_EmptyPayloadReverts ==
    [][ (IsAppend(last') /\ last'.content.size = 0) =>
          /\ last'.reverted
          /\ last'.reason = "Empty message"
          /\ last'.log = <<>>
          /\ userMessages' = userMessages ]_vars

\* an empty storeResponse was rejected while the vault held records
C5_Witness ==
    /\ last.op = "storeResponse"
    /\ last.content.size = 0
    /\ last.reverted
    /\ Len(userMessages[Vault]) > 0

StoredContentInRange ==
    \A a \in Address : \A i \in 1 .. Len(userMessages[a]) :
        /\ userMessages[a][i].encryptedContent.size > 0
        /\ userMessages[a][i].encryptedContent.size <= MaxContentLength

\* C6: storeMessage and storeResponse with a payload longer than 16384 bytes
\* revert (at the size check, "Message too large") and leave every list
\* unchanged; no stored record has an empty payload or one above 16384 bytes.
C6_OversizedPayloadReverts ==
    [][ /\ (IsAppend(last') /\ last'.content.size > MaxContentLength) =>
              /\ last'.reverted
              /\ last'.reason = "Message too large"
              /\ userMessages' = userMessages
        /\ StoredContentInRange' ]_vars

\* an oversized storeMessage was rejected while the vault held records
C6_Witness ==
    /\ last.op = "storeMessage"
    /\ last.content.size = MaxContentLength + 1
    /\ last.reverted
    /\ Len(userMessages[Vault]) > 0

\* C7: for every address U, each of the three index reads reverts for every
\* index i >= getMessageCount(U) and does not revert for any i below it.
C7_IndexReadsRevertIffOutOfRange ==
    /\ \A u \in Address : \A i \in Indices :
          LET outOfRange == (i >= getMessageCount(u))
          IN  /\ getMessageMetadata(u, i).reverted = outOfRange
              /\ getEncryptedContent(u, i).reverted = outOfRange
              /\ getMessage(u, i).reverted = outOfRange
    /\ IsIndexRead(last) =>
          (last.reverted = (last.index >= getMessageCount(last.user)))

\* a read at index = count of a non-empty list reverted
C7_Witness ==
    /\ last.op = "getMessageMetadata"
    /\ last.reverted
    /\ last.index = getMessageCount(last.user)
    /\ last.index > 1

\* C8: getMessageMetadata with an out-of-range index reverts with the reason
\* "Message index out of bounds".
C8_OutOfBoundsReason ==
    (last.op = "getMessageMetadata" /\ last.reverted) =>
        last.reason = "Message index out of bounds"

\* C9: clearMessages by A never reverts, sets getMessageCount(A) to 0 and
\* leaves the list of every other address unchanged.
C9_ClearOnlyCallersList ==
    [][ last'.op = "clearMessages" =>
          /\ ~last'.reverted
          /\ Len(userMessages'[last'.sender]) = 0
          /\ \A b \in Address \ {last'.sender} :
                userMessages'[b] = userMessages[b] ]_vars

\* alice cleared her list and the records of another address are still there
C9_Witness ==
    /\ last.op = "clearMessages"
    /\ last.sender = "alice"
    /\ ~last.reverted
    /\ getMessageCount("alice") = 0
    /\ getMessageCount(Vault) > 0

\* C10: getMessageCount(A) decreases only in a step that is clearMessages
\* called by A: no call by another address removes a record of A's list.
C10_NoCrossUserDeletion ==
    [][ \A a \in Address :
          Len(userMessages'[a]) < Len(userMessages[a]) =>
              (last'.op = "clearMessages" /\ last'.sender = a) ]_vars

\* bob called clearMessages and every record of another address survived it
C10_Witness ==
    /\ last.op = "clearMessages"
    /\ last.sender = "bob"
    /\ getMessageCount(Vault) = MaxAppends


\* C11: a stored record is immutable: once a record exists at index i of U's
\* list, its sender, encryptedContent, timestamp and isResponse stay the same
\* through every later call, until clearMessages by U removes it.
C11_StoredRecordsImmutable ==
    [][ \A u \in Address :
          (last'.op = "clearMessages" /\ last'.sender = u)
          \/ /\ Len(userMessages'[u]) >= Len(userMessages[u])
             /\ \A i \in 1 .. Len(userMessages[u]) :
                   /\ userMessages'[u][i].sender = userMessages[u][i].sender
                   /\ userMessages'[u][i].encryptedContent =
                         userMessages[u][i].encryptedContent
                   /\ userMessages'[u][i].timestamp = userMessages[u][i].timestamp
                   /\ userMessages'[u][i].isResponse = userMessages[u][i].isResponse ]_vars

\* a second append went through at a later block time, next to a first record
C11_Witness ==
    /\ last.op = "storeMessage"
    /\ ~last.reverted
    /\ getMessageCount(Vault) = 2
    /\ userMessages[Vault][1].timestamp < userMessages[Vault][2].timestamp
    /\ userMessages[Vault][1].encryptedContent # userMessages[Vault][2].encryptedContent

\* C12: an append by A changes only A's list: the list of every other
\* address, the contract's own included, is unchanged; so after alice and bob
\* each store one message both counts are 1.
C12_AppendsIsolatedBetweenUsers ==
    [][ /\ (IsAppend(last') /\ Accepted(last'.content)) =>
              \A b \in Address \ {last'.sender} : userMessages'[b] = userMessages[b]
        /\ (Len(sent'["alice"]) = 1 /\ Len(sent'["bob"]) = 1) =>
              /\ Len(userMessages'["alice"]) = 1
              /\ Len(userMessages'["bob"]) = 1 ]_vars

\* C13: requestDecryption never reverts, emits one DecryptionRequested event
\* for the caller and leaves every address's list unchanged.
C13_RequestDecryptionIsNoOp ==
    [][ last'.op = "requestDecryption" =>
          /\ ~last'.reverted
          /\ last'.log = <<DecryptionRequested(last'.sender, now')>>
          /\ userMessages' = userMessages ]_vars

\* bob, who has no record, requested decryption while the vault held records
C13_Witness ==
    /\ last.op = "requestDecryption"
    /\ last.sender = "bob"
    /\ ~last.reverted
    /\ Len(last.log) = 1
    /\ getMessageCount("bob") = 0
    /\ getMessageCount(Vault) > 0

\* C14: codec round trip: decrypt(encrypt(p, k), k) returns p, and for
\* k1 # k2 decrypt(encrypt(p, k1), k2) fails instead of returning p.
C14_CodecRoundTrip ==
    codec.phase = "decrypted" =>
        IF codec.attempt = codec.password
        THEN codec.result.ok /\ codec.result.text = codec.plaintext
        ELSE ~codec.result.ok

\* a payload sealed under k1 was opened under k1
C14_Witness ==
    /\ codec.phase = "decrypted"
    /\ codec.password = "k1"
    /\ codec.attempt = "k1"
    /\ codec.plaintext = "hello"
    /\ codec.result = [ok |-> TRUE, text |-> "hello"]
    /\ codec.payload[SaltLength] # codec.payload[SaltLength + 1]

\* C20: while clearDeploymentCache has not been called, at most one request
\* for /deployments.json is in flight, a fetchDeployments call made meanwhile
\* joins it and returns its result, and once a request has succeeded no
\* fetchDeployments call issues another one.
C20_FetchDeduplicated ==
    [][ ~cleared' =>
          /\ Cardinality(Pending') <= 1
          /\ \A c \in Callers :
                /\ fetchCalls'[c].state = "waiting" => fetchCalls'[c].on \in Pending'
                /\ (fetchCalls[c].state = "waiting" /\ fetchCalls'[c].state = "returned") =>
                      /\ requests'[fetchCalls[c].on].state = "settled"
                      /\ fetchCalls'[c].result = requests'[fetchCalls[c].on].result
                /\ (fetchCalls'[c] # fetchCalls[c] /\ fetchCalls'[c].on = 0) =>
                      fetchCalls'[c].result = deploymentCache[1]
          /\ Len(requests') > Len(requests) =>
                /\ Pending = {}
                /\ \A r \in 1 .. Len(requests) : ~requests[r].ok ]_vars

\* two calls shared request 1, which succeeded, and a third was served from
\* the cache
C20_Witness ==
    /\ ~cleared
    /\ Len(requests) = 1
    /\ requests[1].ok
    /\ fetchCalls["f1"] = [state |-> "returned", on |-> 1,
                           result |-> "31337" :> [address |-> VaultAddress]]
    /\ fetchCalls["f2"] = fetchCalls["f1"]
    /\ fetchCalls["f3"] = [fetchCalls["f1"] EXCEPT !.on = 0]

\* a step in which the call in slot c ends
Ends(c) == calls[c].pc \notin {"idle", "done"} /\ calls'[c].pc = "done"

\* C15: decryptAllMessages on a non-empty list is never made to throw by a
\* failing decrypt call (it throws only when getContract itself rejects, before
\* any decrypt call); once the batch runs the call returns and the list has the
\* same length and order, a message whose decrypt succeeded carries its
\* plaintext, one whose decrypt failed carries "[Decryption failed]", and id,
\* sender, encryptedContent, timestamp and isResponse are unchanged.
C15_DecryptFailuresIsolated ==
    [][ \A c \in Slots :
          (Ends(c) /\ calls[c].fn = "decryptAllMessages") =>
             IF calls'[c].outcome = "threw"
             THEN /\ calls[c].pc = "getContract"
                  /\ calls'[c].rejection \in Rejections
                  /\ calls'[c].thrown = calls'[c].rejection
             ELSE /\ calls'[c].outcome = "returned"
                  /\ Len(messages') = Len(calls[c].messages)
                  /\ \A i \in 1 .. Len(messages') :
                        LET before == calls[c].messages[i]
                            after == messages'[i]
                            plain == decryptText(before.encryptedContent, calls[c].password)
                        IN  /\ after.id = before.id
                            /\ after.sender = before.sender
                            /\ after.encryptedContent = before.encryptedContent
                            /\ after.timestamp = before.timestamp
                            /\ after.isResponse = before.isResponse
                            /\ after.decryptedText =
                                 IF plain.ok THEN Some(plain.text)
                                 ELSE Some(DecryptionFailedText) ]_vars

\* a batch of two in which the first decrypt succeeded and the second failed
C15_Witness ==
    /\ calls["s1"].pc = "done"
    /\ calls["s1"].op = "decryptAllMessages"
    /\ calls["s1"].outcome = "returned"
    /\ Len(messages) = 2
    /\ messages[1].decryptedText = Some("hello")
    /\ messages[2].decryptedText = Some(DecryptionFailedText)
    /\ error = Null

\* C16: when the item stored for the address is not valid JSON, loadMessages
\* returns, leaves an empty message list and has removed the item, on the
\* no-contract path and on the fallback path after a failed contract read.
C16_MalformedEntryDiscarded ==
    [][ \A c \in Slots :
          ( /\ Ends(c)
            /\ calls[c].fn = "loadMessages"
            /\ localStorage[storageKey(calls[c].address)] = Some(Malformed)
            /\ calls[c].pc = "getContract" \/ calls'[c].rejection # NoError ) =>
              /\ calls'[c].outcome = "returned"
              /\ messages' = <<>>
              /\ localStorage'[storageKey(calls[c].address)] = Null ]_vars

\* C17: when getContract or getAllMessages rejects inside loadMessages, the
\* call returns instead of throwing, error is set, the list stored for the
\* address, when there is one, becomes the message list, and loading is false.
C17_LoadFailureFallsBack ==
    [][ \A c \in Slots :
          (Ends(c) /\ calls[c].fn = "loadMessages" /\ calls'[c].rejection # NoError) =>
              /\ calls'[c].outcome = "returned"
              /\ calls'[c].thrown = NoError
              /\ error' # Null
              /\ loading' = FALSE
              /\ LET stored == localStorage[storageKey(calls[c].address)] IN
                   (stored # Null /\ stored # Some(Malformed)) =>
                       messages' = JSONparse(stored[1]).value ]_vars

\* a failed read fell back on the two records stored for alice
C17_Witness ==
    /\ calls["s1"].pc = "done"
    /\ calls["s1"].op = "loadMessages"
    /\ calls["s1"].rejection = Err("CALL_EXCEPTION")
    /\ calls["s1"].outcome = "returned"
    /\ error = Some("Contract not available on this network. Please check your connection.")
    /\ ~loading
    /\ localStorage[storageKey("alice")] # Null
    /\ localStorage[storageKey("alice")] # Some(Malformed)
    /\ messages = JSONparse(localStorage[storageKey("alice")][1]).value
    /\ Len(messages) = 2

\* the map has no entry, an empty address or the zero address for the chain
LocalOnly(deployments) ==
    \/ chainKey(chainId) \notin DOMAIN deployments
    \/ deployments[chainKey(chainId)].address \in {"", ZeroAddress}

\* C18: when the deployment map has no entry, an empty address or the zero
\* address for the active chain, getContract yields no contract and
\* sendMessage, decryptAllMessages and clearMessages end without a
\* transaction; and a sendMessage that got no contract appends the encrypted
\* user message and then the encrypted response to the hook's list and stores
\* that same list under the key of the wallet address, and under no other.
C18_LocalOnlyMode ==
    [][ \A c \in Slots :
          /\ ( /\ calls[c].pc = "getContract"
               /\ calls'[c] # calls[c]
               /\ deploymentCache' = Null \/ LocalOnly(deploymentCache'[1]) ) =>
                  /\ calls'[c].pc = "done"
                  /\ calls'[c].txs = <<>>
                  /\ calls'[c].outcome = "returned"
          /\ ( /\ Ends(c)
               /\ calls[c].pc = "getContract"
               /\ calls[c].fn = "sendMessage"
               /\ calls'[c].outcome = "returned" ) =>
                  /\ Len(messages') = Len(calls[c].messages) + 2
                  /\ SubSeq(messages', 1, Len(calls[c].messages)) = calls[c].messages
                  /\ LET n == Len(calls[c].messages) IN
                       /\ messages'[n + 1].encryptedContent = calls[c].encryptedMessage
                       /\ messages'[n + 1].sender = calls[c].address
                       /\ ~messages'[n + 1].isResponse
                       /\ messages'[n + 2].encryptedContent = calls[c].encryptedResponse
                       /\ messages'[n + 2].isResponse
                  /\ localStorage' = [localStorage EXCEPT
                         ![storageKey(calls[c].address)] = Some(JSONstringify(messages'))] ]_vars

\* with the zero address deployed, a send left its two records in the hook's
\* list and under alice's key
C18_Witness ==
    /\ deploymentCache = Some("31337" :> [address |-> ZeroAddress])
    /\ walletClient
    /\ calls["s1"].pc = "done"
    /\ calls["s1"].op = "sendMessage"
    /\ calls["s1"].outcome = "returned"
    /\ calls["s1"].txs = <<>>
    /\ Len(messages) = 2
    /\ messages[2].isResponse
    /\ localStorage[storageKey("alice")] = Some(JSONstringify(messages))
    /\ localStorage[storageKey("bob")] = Null

\* C19: when the submission or the confirmation of storeMessage or
\* storeResponse fails inside sendMessage, the call ends there: it throws that
\* error, error is set, loading is false, and it has submitted no transaction
\* after the failed one.
C19_SendFailureRethrown ==
    [][ \A c \in Slots :
          ( /\ calls[c].pc \in {"storeMessage", "storeResponse"}
            /\ calls'[c].rejection # NoError ) =>
              /\ calls'[c].pc = "done"
              /\ calls'[c].outcome = "threw"
              /\ calls'[c].thrown = calls'[c].rejection
              /\ error' # Null
              /\ loading' = FALSE
              /\ \/ calls'[c].txs = calls[c].txs
                 \/ calls'[c].txs = Append(calls[c].txs, calls[c].pc)
              /\ Len(calls'[c].txs) <= 2
              /\ UNCHANGED <<messages, localStorage>> ]_vars

\* storeMessage was confirmed, storeResponse was submitted and failed
C19_Witness ==
    /\ calls["s1"].pc = "done"
    /\ calls["s1"].op = "sendMessage"
    /\ calls["s1"].txs = <<"storeMessage", "storeResponse">>
    /\ calls["s1"].rejection = Err("user rejected action")
    /\ calls["s1"].outcome = "threw"
    /\ calls["s1"].thrown = Err("user rejected action")
    /\ error = Some("user rejected action")
    /\ ~loading

\* C21: after clearDeploymentCache the next fetchDeployments call issues a new
\* request, the result of a request started before the clear is never stored
\* in the cache, and a call made after the clear never joins such a request.
C21_ClearForcesFreshFetch ==
    [][ /\ \A c \in Callers :
              ( /\ cleared
                /\ \A r \in 1 .. Len(requests) : requests[r].stale
                /\ fetchCalls[c].state # "waiting"
                /\ fetchCalls'[c] # fetchCalls[c] ) =>
                  Len(requests') = Len(requests) + 1
        /\ \A r \in 1 .. Len(requests) :
              ( /\ requests[r].stale
                /\ requests[r].state = "pending"
                /\ requests'[r].state = "settled" ) =>
                  deploymentCache' = deploymentCache
        /\ \A c \in Callers :
              (fetchCalls[c].state # "waiting" /\ fetchCalls'[c].state = "waiting") =>
                  ~requests'[fetchCalls'[c].on].stale ]_vars

\* C22: after handleLockVault runs with the wallet connected, isAuthenticated
\* is false and the encryption password is empty, and the chat stays hidden
\* until a handleAuthenticate succeeds.
C22_LockEndsSession ==
    [][ /\ (chat'.event = "handleLockVault" /\ chat' # chat /\ isConnected') =>
              /\ ~chat'.isAuthenticated
              /\ chat'.password = ""
        /\ (authenticationScreenShown /\ chatInterfaceShown') =>
              chat'.event = "signed" ]_vars

\* C23: whenever the wallet is connected and isAuthenticated is true, a
\* handleAuthenticate with a password of at least 6 characters and an accepted
\* signature has completed since the last lock or disconnect, and the
\* encryption password is that password.
C23_AuthenticationGate ==
    chatInterfaceShown =>
        /\ chat.authenticatedWith # Null
        /\ chat.password = chat.authenticatedWith[1]
        /\ passwordLength(chat.password) >= 6
        /\ trim(chat.password) # ""

\* C24: in on-chain mode sendMessage submits storeResponse only after
\* storeMessage was confirmed and re-fetches the messages only after
\* storeResponse was confirmed; if storeMessage fails, storeResponse is never
\* submitted and the hook's message list and local storage are not modified.
C24_SendIsStrictSequence ==
    [][ \A c \in Slots :
          /\ ( /\ Len(calls'[c].txs) > Len(calls[c].txs)
               /\ calls'[c].txs[Len(calls'[c].txs)] = "storeResponse" ) =>
                  calls[c].confirmed = <<"storeMessage">>
          /\ ( /\ calls'[c].op = "sendMessage"
               /\ calls'[c].fn = "loadMessages"
               /\ calls'[c].pc \in {"getContract", "getAllMessages"} ) =>
                  calls'[c].confirmed = <<"storeMessage", "storeResponse">>
          /\ (calls[c].op = "sendMessage" /\ messages' # messages) =>
                  \/ calls[c].confirmed = <<"storeMessage", "storeResponse">>
                  \/ calls[c].txs = <<>>
          /\ (calls[c].pc = "storeMessage" /\ calls'[c].rejection # NoError) =>
                  /\ calls'[c].pc = "done"
                  /\ calls'[c].txs \in {<<>>, <<"storeMessage">>}
                  /\ UNCHANGED <<messages, localStorage>> ]_vars

\* both transactions were confirmed and the list was read back from the contract
C24_Witness ==
    /\ calls["s1"].pc = "done"
    /\ calls["s1"].op = "sendMessage"
    /\ calls["s1"].outcome = "returned"
    /\ calls["s1"].txs = <<"storeMessage", "storeResponse">>
    /\ calls["s1"].confirmed = <<"storeMessage", "storeResponse">>
    /\ Len(messages) = 2
    /\ localStorage[storageKey("alice")] = Null

\* C25: when a contract is available and the requestDecryption transaction is
\* rejected or fails, decryptAllMessages still decrypts every message, leaves
\* error as it set it (null) and returns; it throws for an empty list only,
\* with "No messages to decrypt", no transaction and the list unchanged.
C25_DecryptionRequestOptional ==
    [][ \A c \in Slots :
          /\ (calls[c].pc = "requestDecryption" /\ calls'[c].rejection # NoError) =>
                /\ calls'[c].pc = "done"
                /\ calls'[c].outcome = "returned"
                /\ messages' = decryptMessages(calls[c].messages, calls[c].password).messages
                /\ error' = error
          /\ ( /\ calls'[c] # calls[c]
               /\ calls'[c].pc = "done"
               /\ calls'[c].op = "decryptAllMessages"
               /\ calls'[c].outcome = "threw" ) =>
                /\ Len(messages) = 0
                /\ calls'[c].thrown = Err("No messages to decrypt")
                /\ calls'[c].txs = <<>>
                /\ messages' = messages ]_vars

\* C26: the hook's clearMessages empties the message list and removes the
\* item of the address only once the clearMessages transaction is confirmed,
\* or when there is no contract; if the transaction fails, the list and the
\* item are unchanged, error is set, nothing is thrown and loading is false.
C26_ClearAfterConfirmation ==
    [][ \A c \in Slots :
          /\ (Ends(c) /\ calls[c].fn = "clearMessages") =>
                /\ calls'[c].outcome = "returned"
                /\ calls'[c].thrown = NoError
                /\ loading' = FALSE
                /\ IF calls'[c].rejection # NoError
                   THEN /\ UNCHANGED <<messages, localStorage>>
                        /\ error' # Null
                   ELSE /\ messages' = <<>>
                        /\ localStorage' =
                             [localStorage EXCEPT ![storageKey(calls[c].address)] = Null]
                        /\ \/ calls'[c].confirmed = <<"clearMessages">>
                           \/ calls[c].pc = "getContract" /\ calls'[c].txs = <<>>
          /\ (calls[c].fn = "clearMessages" /\ calls'[c] # calls[c] /\ ~Ends(c)) =>
                UNCHANGED <<messages, localStorage>> ]_vars

\* the transaction was submitted and failed: two messages and alice's item
\* are still there
C26_Witness ==
    /\ calls["s1"].pc = "done"
    /\ calls["s1"].op = "clearMessages"
    /\ calls["s1"].txs = <<"clearMessages">>
    /\ calls["s1"].confirmed = <<>>
    /\ calls["s1"].rejection = Err("CALL_EXCEPTION")
    /\ calls["s1"].outcome = "returned"
    /\ error = Some("CALL_EXCEPTION")
    /\ ~loading
    /\ Len(messages) = 2
    /\ localStorage[storageKey("alice")] = Some(JSONstringify(messages))

\* C29: a storeMessage or storeResponse call by A whose payload passes the
\* two length checks computes the event's index without underflow, also when
\* it is A's first append, and when it succeeds it emits MessageStored with
\* user A and messageIndex A's new count minus 1, the index of the record
\* just appended to A's list.
C29_EventIndexOfAppendedRecord ==
    [][ (IsAppend(last') /\ Accepted(last'.content)) =>
          LET a == last'.sender IN
          /\ ~(last'.reverted /\ last'.reason = PanicUnderflow)
          /\ ~last'.reverted =>
                /\ Len(userMessages'[a]) = Len(userMessages[a]) + 1
                /\ Len(last'.log) = 1
                /\ last'.log[1].event = "MessageStored"
                /\ last'.log[1].user = a
                /\ last'.log[1].messageIndex = Len(userMessages'[a]) - 1 ]_vars

\* C30: a failed fetch of /deployments.json resolves the calls awaiting it to
\* the empty map, leaves the cache as it was (empty when clearDeploymentCache
\* was never called) and clears the marker of the request in flight, so that
\* the next fetchDeployments call made with an empty cache issues a request.
C30_FailedFetchNotCached ==
    [][ /\ \A r \in 1 .. Len(requests) :
              ( /\ requests[r].state = "pending"
                /\ requests'[r].state = "settled"
                /\ ~requests'[r].ok ) =>
                  /\ requests'[r].result = EmptyMap
                  /\ \A c \in Callers :
                        (fetchCalls[c].state = "waiting" /\ fetchCalls[c].on = r) =>
                            fetchCalls'[c] = [state |-> "returned", on |-> r,
                                              result |-> EmptyMap]
                  /\ deploymentCache' = deploymentCache
                  /\ ~cleared => deploymentCache' = Null
                  /\ deploymentFetchPromise' = Null
        /\ \A c \in Callers :
              ( /\ deploymentCache = Null
                /\ deploymentFetchPromise = Null
                /\ fetchCalls[c].state # "waiting"
                /\ fetchCalls'[c] # fetchCalls[c] ) =>
                  /\ Len(requests') = Len(requests) + 1
                  /\ fetchCalls'[c].state = "waiting"
                  /\ fetchCalls'[c].on = Len(requests') ]_vars

\* request 1 failed, f1 got the empty map, and f2's call issued request 2
C30_Witness ==
    /\ ~cleared
    /\ Len(requests) = 2
    /\ requests[1].state = "settled"
    /\ ~requests[1].ok
    /\ fetchCalls["f1"] = [state |-> "returned", on |-> 1, result |-> EmptyMap]
    /\ fetchCalls["f2"] = [state |-> "waiting", on |-> 2, result |-> EmptyMap]
    /\ deploymentCache = Null
    /\ deploymentFetchPromise = Some(2)

\* the list persisted under the key of an address
persisted(store, a) ==
    IF store[storageKey(a)] = Null THEN <<>> ELSE JSONparse(store[storageKey(a)][1]).value

\* C27: in local-only mode, when loadMessages completes for the connected
\* address A, the hook's list is the list persisted under A's key, the empty
\* list when nothing is persisted for A.
C27_LocalLoadShowsOwnList ==
    [][ \A c \in LocalSlots :
          ( /\ Ends(c)
            /\ calls[c].fn = "loadMessages"
            /\ calls[c].pc = "getContract"
            /\ calls[c].address = address ) =>
                /\ messages' = persisted(localStorage', address)
                /\ localStorage'[storageKey(address)] = Null => messages' = <<>> ]_vars

\* C28: in local-only mode every sendMessage call that completes leaves two
\* more records, its user message and then its response, in the list
\* persisted for its address, also when another call was in progress
\* meanwhile, and every persisted record's id is its position.
C28_LocalSendLosesNothing ==
    [][ \A c \in LocalSlots :
          ( /\ Ends(c)
            /\ calls[c].fn = "sendMessage"
            /\ calls[c].pc = "getContract"
            /\ calls'[c].outcome = "returned" ) =>
                LET a == calls[c].address
                    old == persisted(localStorage, a)
                    new == persisted(localStorage', a)
                IN /\ Len(new) = Len(old) + 2
                   /\ SubSeq(new, 1, Len(old)) = old
                   /\ new[Len(new) - 1].encryptedContent = calls[c].encryptedMessage
                   /\ ~new[Len(new) - 1].isResponse
                   /\ new[Len(new)].encryptedContent = calls[c].encryptedResponse
                   /\ new[Len(new)].isResponse
                   /\ \A i \in 1 .. Len(new) : new[i].id = i - 1 ]_vars

=============================================================================
